---- MODULE Spec2Model ----
(***************************************************************************)
(* Model of zerr's stack capture and deduplication cache                   *)
(* (getOrCreateStack, stackCache, pcPool) and of the lazy formatting of a  *)
(* stack entry (StackTrace, formatStack, LogValue, logFields).             *)
(*                                                                         *)
(* Spec     : goroutines running getOrCreateStack step by step, the        *)
(*            garbage collector reclaiming unreferenced entries, the pool  *)
(*            dropping buffers.                                            *)
(* FairSpec : Spec with running calls and the collector scheduled.         *)
(* FmtSpec  : goroutines formatting and reading the stack text of errors.  *)
(* LogSpec  : logFields walking an error chain, cyclic ones included.      *)
(* BufSpec  : captures of one goroutine, seen through the arrays and       *)
(*            slices of the pooled buffer and of the entries.              *)
(* HashSpec : the fingerprint of two frame sequences.                      *)
(* ApiSpec  : one goroutine calling New, Wrap, With, Stack, Error.With,    *)
(*            Error.WithStack, Error.Error and Defer.                      *)
(***************************************************************************)
EXTENDS Integers, Sequences, FiniteSets, TLC

\* ------------------------------------------------------------------ bounds
\* Number of goroutines that call getOrCreateStack.
NumThreads == 2
\* Number of getOrCreateStack calls in one run.
MaxCalls == 3
\* Length of a fresh pooled buffer (128 in the source, scaled down).
InitCap == 2
\* Width of uintptr in bits (32 or 64 in the source, scaled down).
HashBits == 16
\* Number of error objects in the formatting runs.
NumErrs == 6

\* ------------------------------------------------------------- constants
Nil == 0
HashSeed == 17
HashMul == 31

Threads == 1..NumThreads
\* A call allocates at most one stackCacheEntry.
Entries == 1..MaxCalls
Bufs == 1..NumThreads
Mod == 2^HashBits

Min(a, b) == IF a < b THEN a ELSE b

\* Call sites: the true call stack (innermost frame first) of each site.
\* SiteA and SiteB are different sequences with the same fingerprint;
\* SiteDeep is deeper than twice a fresh buffer.
SiteA == <<1, 32>>
SiteB == <<2, 1>>
SiteDeep == [k \in 1..(2 * InitCap + 1) |-> 40 + k]
\* A call with no frame left after the skipped ones: runtime.Callers returns 0.
SiteNone == <<>>
Sites == {SiteA, SiteB, SiteDeep, SiteNone}

\* runtime.Callers(skip+1, pcs): fills pcs with at most len(pcs) frames.
Callers(site, buflen) == SubSeq(site, 1, Min(Len(site), buflen))

\* The frames one capture ends with: the first attempt fills a buffer of
\* buflen slots; when it filled it, one second attempt with twice the length.
CaptureLen(buflen, site) ==
    IF Len(Callers(site, buflen)) = buflen THEN 2 * buflen ELSE buflen

Capture(buflen, site) == Callers(site, CaptureLen(buflen, site))

\* hash := 17; for each pc: hash = hash*31 + pc  (uintptr arithmetic)
RECURSIVE HashFrom(_, _)
HashFrom(h, seq) ==
    IF seq = <<>> THEN h
    ELSE HashFrom((h * HashMul + Head(seq)) % Mod, Tail(seq))

\* A fingerprint that adds the addresses up, in whatever order.
RECURSIVE HashSum(_)
HashSum(seq) ==
    IF seq = <<>> THEN HashSeed ELSE (HashSum(Tail(seq)) + Head(seq)) % Mod

Hash(seq) == HashFrom(HashSeed, seq)

\* A comparison that trusts the length alone.
stackMatchesLen(cached, current) == Len(cached) = Len(current)

\* A comparison that never succeeds.
stackMatchesNever(cached, current) == FALSE

\* stackMatches: same length and same element at every index.
stackMatches(cached, current) ==
    /\ Len(cached) = Len(current)
    /\ \A k \in 1..Len(cached) : cached[k] = current[k]

\* Capacity of the array append allocates when the old one is full.
GrowCap(cap) == IF cap = 0 THEN 1 ELSE 2 * cap

VARIABLES
    stackCache,   \* hash -> [arr: backing array of weak pointers, len: slice length]
    entryPc,      \* entry -> its frame sequence (stackCacheEntry.pc)
    allocated,    \* number of stackCacheEntry objects allocated so far
    calls,        \* number of getOrCreateStack calls started so far
    reclaimed,    \* entries the collector has reclaimed
    held,         \* entries referenced by some error object of the callers
    pool,         \* buffers in pcPool
    bufCap,       \* buffer -> cap of the slice it points to (0: no such buffer)
    writer,       \* goroutine holding stackCacheMu exclusively, or Nil
    readers,      \* goroutines holding stackCacheMu shared
    frame,        \* goroutine -> locals of its getOrCreateStack call
    errStack,     \* error object -> its stack field (an entry, or Nil)
    once,         \* entry -> state of stackCacheEntry.once
    formatted,    \* entry -> stackCacheEntry.formatted
    fmtRuns,      \* entry -> number of formatStackTrace runs on its frames
    resolved,     \* entry -> number of frame resolutions formatStackTrace made of it
    call,         \* goroutine -> its StackTrace / Format / LogValue / logFields call
    objs,         \* the Error objects allocated so far, by address
    arrays,       \* the metadata backing arrays allocated so far, by address
    last,         \* the last call of the error API: operation, arguments, result
    fpCall,       \* a fingerprint computation: two frame sequences and their hashes
    bufRun,       \* captures seen through the memory they use: arrays, slices, pool
    logRun        \* a logFields call: the error chain, the loop's locals

cacheVars == <<stackCache, entryPc, allocated, calls, reclaimed, held, pool, bufCap,
               writer, readers, frame>>
fmtVars == <<errStack, once, formatted, fmtRuns, resolved, call>>
apiVars == <<objs, arrays, last, fpCall, bufRun, logRun>>
vars == <<cacheVars, fmtVars, apiVars>>

IdleFrame ==
    [pc |-> "idle", site |-> <<>>, buf |-> Nil, pcs |-> <<>>, hash |-> 0,
     pcsCap |-> 0, ok |-> FALSE, entLen |-> 0, entCap |-> 0,
     frozen |-> <<>>, i |-> 0,
     active |-> 0, newEntry |-> Nil, foundEntry |-> Nil,
     inserted |-> FALSE, before |-> <<>>, deadAtLock |-> {}]

\* Error objects the formatting layer works on.
Errs == 1..NumErrs

\* No StackTrace, Format, LogValue or logFields call made yet.
IdleCall ==
    [op |-> "none", pc |-> "idle", err |-> Nil, out |-> <<>>, started |-> FALSE,
     inline |-> FALSE]

\* A slice header: the array it points into, its length, its capacity.
Slice(a, l, c) == [arr |-> a, len |-> l, cap |-> c]
NoSlice == Slice(Nil, 0, 0)

\* No capture made yet: no array allocated, the pool empty, no entry.
IdleRun ==
    [pc |-> "idle", mem |-> <<>>, pooled |-> <<>>, ents |-> <<>>, captures |-> 0,
     site |-> <<>>, got |-> NoSlice, pcs |-> NoSlice, n |-> 0, attempts |-> 0,
     firstLen |-> 0, firstN |-> 0, lastLen |-> 0, found |-> 0]

\* No logFields call made: no chain, no field.
IdleLog ==
    [pc |-> "idle", shape |-> <<>>, next |-> <<>>, start |-> Nil, err |-> Nil,
     depth |-> 0, fields |-> <<>>, path |-> <<>>]

\* No fingerprint computation under way.
IdleFp == [a |-> <<>>, b |-> <<>>, ha |-> Nil, hb |-> Nil, done |-> FALSE]

\* Interface values (error, any): the dynamic type, and the value as an
\* address or number (val) or as a string (text).
\* The nil interface.
NilError == [type |-> "nil", val |-> Nil, text |-> <<>>]

\* A *Error converted to an interface: non-nil whatever the pointer.
AsError(p) == [type |-> "*Error", val |-> p, text |-> <<>>]

\* An error of a type of another package, by identity.
Foreign(s) == [type |-> "error", val |-> s, text |-> <<>>]

\* The error API not called yet: no Error object, no metadata array.
NoCall ==
    [op |-> "none", arg |-> NilError, key |-> <<>>, val |-> Nil,
     result |-> NilError, text |-> <<>>, handled |-> 0]

ApiIdle ==
    /\ objs = <<>>
    /\ arrays = <<>>
    /\ last = NoCall

\* The cache and the pool at program start, no call running.
NoCapture ==
    /\ stackCache = <<>>
    /\ entryPc = [e \in Entries |-> <<>>]
    /\ allocated = 0
    /\ calls = 0
    /\ reclaimed = {}
    /\ held = {}
    /\ pool = {}
    /\ bufCap = [b \in Bufs |-> 0]
    /\ writer = Nil
    /\ readers = {}
    /\ frame = [t \in Threads |-> IdleFrame]

\* No error object, nothing formatted.
NoFormat ==
    /\ errStack = [x \in Errs |-> Nil]
    /\ once = [e \in Entries |-> "new"]
    /\ formatted = [e \in Entries |-> <<>>]
    /\ fmtRuns = [e \in Entries |-> 0]
    /\ resolved = [e \in Entries |-> 0]
    /\ call = [t \in Threads |-> IdleCall]

Init ==
    /\ NoCapture
    /\ NoFormat
    /\ ApiIdle
    /\ fpCall = IdleFp
    /\ bufRun = IdleRun
    /\ logRun = IdleLog

\* A cache of plain pointers: a reference is usable whatever became of its target.
ValueStrong(w) == w

\* weak.Pointer.Value(): nil for the zero pointer and for a reclaimed target.
Value(w) == IF w = Nil \/ w \in reclaimed THEN Nil ELSE w

\* Goroutines inside a call.
InFlight == {t \in Threads : frame[t].pc # "idle"}

\* Entries a running call references strongly (newEntry, foundEntry).
Roots ==
    held \cup {frame[t].newEntry : t \in InFlight}
         \cup {frame[t].foundEntry : t \in InFlight}

\* pcPool.Get (a pooled buffer, or New when the pool hands none), the reset
\* to full capacity, the capture with its single growth, the trim, the hash.
Start(t, site, b) ==
    /\ frame[t].pc = "idle"
    /\ calls < MaxCalls
    /\ calls' = calls + 1
    /\ \/ b \in pool
       \/ /\ bufCap[b] = 0
          /\ \A c \in Bufs : bufCap[c] = 0 => b <= c
    /\ LET cap0 == IF b \in pool THEN bufCap[b] ELSE InitCap
           pcs == Capture(cap0, site)
       IN /\ bufCap' = [bufCap EXCEPT ![b] = cap0]
          /\ frame' = [frame EXCEPT ![t] =
                 [IdleFrame EXCEPT !.pc = "rlock", !.site = site, !.buf = b,
                                   !.pcs = pcs, !.pcsCap = CaptureLen(cap0, site),
                                   !.hash = Hash(pcs)]]
    /\ pool' = pool \ {b}
    /\ UNCHANGED <<stackCache, entryPc, allocated, reclaimed, held, writer, readers,
                   fmtVars, apiVars>>

\* A fast path that takes the lock exclusively.
RLockExclusive(t) ==
    /\ frame[t].pc = "rlock"
    /\ writer = Nil
    /\ readers = {}
    /\ writer' = t
    /\ frame' = [frame EXCEPT ![t].pc = "rread"]
    /\ UNCHANGED <<calls, stackCache, entryPc, allocated, reclaimed, held, pool, bufCap,
                   readers, fmtVars, apiVars>>

\* stackCacheMu.RLock()
RLock(t) ==
    /\ frame[t].pc = "rlock"
    /\ writer = Nil
    /\ readers' = readers \cup {t}
    /\ frame' = [frame EXCEPT ![t].pc = "rread"]
    /\ UNCHANGED <<calls, stackCache, entryPc, allocated, reclaimed, held, pool, bufCap, writer,
                   fmtVars, apiVars>>

\* newEntry := &stackCacheEntry{pc: copy of pcs}
AllocEntry(t) ==
    /\ allocated' = allocated + 1
    /\ entryPc' = [entryPc EXCEPT ![allocated + 1] = frame[t].pcs]

\* A fast path that keeps the shared lock.
RUnlockSkipped(t) == readers

\* stackCacheMu.RUnlock(): the holders of the shared lock afterwards.
RUnlock(t) == readers \ {t}

\* entries, ok := stackCache[hash]; stackCacheMu.RUnlock().  With ok false
\* the call goes on to build its candidate entry.
ReadBucket(t) ==
    /\ frame[t].pc = "rread"
    /\ readers' = RUnlock(t)
    /\ IF frame[t].hash \in DOMAIN stackCache
       THEN /\ frame' = [frame EXCEPT ![t] =
                   [@ EXCEPT !.pc = "scan", !.ok = TRUE, !.i = 1,
                             !.entLen = stackCache[frame[t].hash].len,
                             !.entCap = Len(stackCache[frame[t].hash].arr)]]
            /\ UNCHANGED <<allocated, entryPc>>
       ELSE /\ AllocEntry(t)
            /\ frame' = [frame EXCEPT ![t] =
                   [@ EXCEPT !.pc = "lock", !.newEntry = allocated + 1]]
    /\ UNCHANGED <<calls, stackCache, reclaimed, held, pool, bufCap, writer,
                   fmtVars, apiVars>>

\* The element of the slice `entries` a goroutine reads without the lock: the
\* shared backing array while the bucket still uses it, the abandoned array
\* (as append left it) once the bucket moved to a larger one.
ReadEntry(t, k) ==
    IF Len(stackCache[frame[t].hash].arr) = frame[t].entCap
    THEN stackCache[frame[t].hash].arr[k]
    ELSE frame[t].frozen[k]

\* *pcsPtr = pcs; pcPool.Put(pcsPtr)
PutBack(t) ==
    /\ pool' = pool \cup {frame[t].buf}
    /\ bufCap' = [bufCap EXCEPT ![frame[t].buf] = frame[t].pcsCap]

\* One iteration of the fast-path loop over entries (after RUnlock): a live
\* matching entry ends the loop and is what the call returns (pc "ret"
\* with no candidate built); after the last element the call builds its
\* candidate entry.
FastScan(t) ==
    /\ frame[t].pc = "scan"
    /\ LET f == frame[t]
           ptr == IF f.i <= f.entLen THEN Value(ReadEntry(t, f.i)) ELSE Nil
       IN IF ptr # Nil /\ stackMatches(entryPc[ptr], f.pcs)
          THEN /\ frame' = [frame EXCEPT ![t] =
                      [@ EXCEPT !.pc = "ret", !.foundEntry = ptr]]
               /\ UNCHANGED <<allocated, entryPc>>
          ELSE IF f.i < f.entLen
          THEN /\ frame' = [frame EXCEPT ![t].i = f.i + 1]
               /\ UNCHANGED <<allocated, entryPc>>
          ELSE /\ AllocEntry(t)
               /\ frame' = [frame EXCEPT ![t] =
                      [@ EXCEPT !.pc = "lock", !.newEntry = allocated + 1]]
    /\ UNCHANGED <<calls, stackCache, reclaimed, held, pool, bufCap, writer, readers,
                   fmtVars, apiVars>>

\* stackCacheMu.Lock(); entries, ok = stackCache[hash]
Lock(t) ==
    /\ frame[t].pc = "lock"
    /\ writer = Nil
    /\ readers = {}
    /\ writer' = t
    /\ IF frame[t].hash \in DOMAIN stackCache
       THEN frame' = [frame EXCEPT ![t] =
                [@ EXCEPT !.pc = IF stackCache[frame[t].hash].len = 0
                                 THEN "finish" ELSE "compact",
                          !.ok = TRUE, !.i = 1, !.active = 0,
                          !.entLen = stackCache[frame[t].hash].len,
                          !.entCap = Len(stackCache[frame[t].hash].arr),
                          !.before = SubSeq(stackCache[frame[t].hash].arr, 1,
                                            stackCache[frame[t].hash].len),
                          !.deadAtLock = reclaimed]]
       ELSE frame' = [frame EXCEPT ![t] = [@ EXCEPT !.pc = "finish", !.ok = FALSE]]
    /\ UNCHANGED <<calls, stackCache, entryPc, allocated, reclaimed, held, pool, bufCap, readers,
                   fmtVars, apiVars>>

\* A compaction that keeps every reference, reclaimed or not.
KeepRefAlways(ptr) == TRUE

\* if ptr := weakEntry.Value(); ptr != nil { activeEntries = append(...) }
KeepRef(ptr) == ptr # Nil

\* An insertion path without the second look under the write lock.
RescanNever(ptr, found, pcs) == found

\* if foundEntry == nil && stackMatches(ptr.pc, pcs) { foundEntry = ptr }
Rescan(ptr, found, pcs) ==
    IF ptr # Nil /\ found = Nil /\ stackMatches(entryPc[ptr], pcs)
    THEN ptr ELSE found

\* One iteration of the re-scan under the write lock: a live reference is
\* appended to activeEntries (entries[:0], the same backing array) and the
\* first live match becomes foundEntry.
CompactStep(t) ==
    /\ frame[t].pc = "compact"
    /\ writer = t
    /\ LET f == frame[t]
           w == stackCache[f.hash].arr[f.i]
           ptr == Value(w)
       IN /\ stackCache' =
                 IF KeepRef(ptr)
                 THEN [stackCache EXCEPT ![f.hash].arr[f.active + 1] = w]
                 ELSE stackCache
          /\ frame' = [frame EXCEPT ![t] =
                 [@ EXCEPT !.i = f.i + 1,
                           !.active = IF KeepRef(ptr) THEN f.active + 1 ELSE f.active,
                           !.foundEntry = Rescan(ptr, f.foundEntry, f.pcs),
                           !.pc = IF f.i < f.entLen THEN "compact" ELSE "finish"]]
    /\ UNCHANGED <<calls, entryPc, allocated, reclaimed, held, pool, bufCap, writer, readers,
                   fmtVars, apiVars>>

\* append(stackCache[hash], weak.Make(newEntry)) on a slice [arr, len]: in
\* place while len < cap, into a new array of GrowCap(cap) otherwise.
AppendWeak(sl, w) ==
    IF sl.len < Len(sl.arr)
    THEN [arr |-> [sl.arr EXCEPT ![sl.len + 1] = w], len |-> sl.len + 1]
    ELSE [arr |-> [k \in 1..GrowCap(Len(sl.arr)) |->
                      IF k <= sl.len THEN sl.arr[k]
                      ELSE IF k = sl.len + 1 THEN w ELSE Nil],
          len |-> sl.len + 1]

EmptySlice == [arr |-> <<>>, len |-> 0]

\* stackCache[hash] = activeEntries (when ok); then either foundEntry is
\* returned (Unlock) or the candidate is appended to the chain (Unlock).
Finish(t) ==
    /\ frame[t].pc = "finish"
    /\ writer = t
    /\ LET f == frame[t]
           cur == IF f.ok THEN [arr |-> stackCache[f.hash].arr, len |-> f.active]
                  ELSE EmptySlice
           new == IF f.foundEntry # Nil THEN cur ELSE AppendWeak(cur, f.newEntry)
           moved == Len(new.arr) # Len(cur.arr)
       IN /\ stackCache' =
                 [k \in DOMAIN stackCache \cup {f.hash} |->
                     IF k = f.hash THEN new ELSE stackCache[k]]
          /\ frame' = [u \in Threads |->
                 IF u = t
                 THEN [f EXCEPT !.pc = "ret", !.inserted = (f.foundEntry = Nil)]
                 ELSE IF /\ moved
                         /\ frame[u].pc = "scan"
                         /\ frame[u].hash = f.hash
                         /\ frame[u].entCap = Len(cur.arr)
                 THEN [frame[u] EXCEPT !.frozen = cur.arr]
                 ELSE frame[u]]
    /\ writer' = Nil
    /\ UNCHANGED <<calls, entryPc, allocated, reclaimed, held, pool, bufCap, readers,
                   fmtVars, apiVars>>

\* A call that returns its own candidate whenever it built one.
ResultOwn(t) ==
    IF frame[t].newEntry # Nil THEN frame[t].newEntry ELSE frame[t].foundEntry

\* What the call returns: the entry it found, else its candidate.
Result(t) ==
    IF frame[t].foundEntry # Nil THEN frame[t].foundEntry ELSE frame[t].newEntry

\* A candidate that lost the race is referenced by nothing once the call
\* has returned: no bucket, no error.  It is counted as reclaimed at once,
\* since nothing can observe when the collector frees it.
Discarded(t) ==
    IF frame[t].newEntry # Nil /\ frame[t].foundEntry # Nil
    THEN {frame[t].newEntry} ELSE {}

\* A lost-race path that returns foundEntry without putting the buffer back.
ReturnNoPut(t) ==
    /\ frame[t].pc = "ret"
    /\ IF frame[t].foundEntry # Nil /\ frame[t].newEntry # Nil
       THEN UNCHANGED <<pool, bufCap>>
       ELSE PutBack(t)
    /\ held' = held \cup {Result(t)}
    /\ reclaimed' = reclaimed \cup Discarded(t)
    /\ frame' = [frame EXCEPT ![t] = IdleFrame]
    /\ UNCHANGED <<calls, stackCache, entryPc, allocated, writer, readers,
                   fmtVars, apiVars>>

\* *pcsPtr = pcs; pcPool.Put(pcsPtr); return ptr, foundEntry or newEntry.
\* The caller stores the entry in the error it builds.
Return(t) ==
    /\ frame[t].pc = "ret"
    /\ PutBack(t)
    /\ held' = held \cup {Result(t)}
    /\ reclaimed' = reclaimed \cup Discarded(t)
    /\ frame' = [frame EXCEPT ![t] = IdleFrame]
    /\ UNCHANGED <<calls, stackCache, entryPc, allocated, writer, readers,
                   fmtVars, apiVars>>

\* The last error holding entry e goes out of scope.
Release(e) ==
    /\ e \in held
    /\ held' = held \ {e}
    /\ UNCHANGED <<calls, stackCache, entryPc, allocated, reclaimed, pool, bufCap,
                   writer, readers, frame,
                   fmtVars, apiVars>>

\* The collector reclaims an entry nothing references strongly; the weak
\* pointers to it return nil from then on.
Reclaim(e) ==
    /\ e <= allocated
    /\ e \notin reclaimed
    /\ e \notin Roots
    /\ reclaimed' = reclaimed \cup {e}
    /\ UNCHANGED <<calls, stackCache, entryPc, allocated, held, pool, bufCap,
                   writer, readers, frame,
                   fmtVars, apiVars>>

\* sync.Pool drops a pooled buffer (it may do so at any time).
PoolDrop(b) ==
    /\ b \in pool
    /\ pool' = pool \ {b}
    /\ bufCap' = [bufCap EXCEPT ![b] = 0]
    /\ UNCHANGED <<calls, stackCache, entryPc, allocated, reclaimed, held,
                   writer, readers, frame,
                   fmtVars, apiVars>>

Next ==
    \/ \E t \in Threads, site \in Sites, b \in Bufs : Start(t, site, b)
    \/ \E t \in Threads : RLock(t)
    \/ \E t \in Threads : ReadBucket(t)
    \/ \E t \in Threads : FastScan(t)
    \/ \E t \in Threads : Lock(t)
    \/ \E t \in Threads : CompactStep(t)
    \/ \E t \in Threads : Finish(t)
    \/ \E t \in Threads : Return(t)
    \/ \E e \in Entries : Release(e)
    \/ \E e \in Entries : Reclaim(e)
    \/ \E b \in Bufs : PoolDrop(b)

Spec == Init /\ [][Next]_vars

\* A goroutine inside getOrCreateStack is scheduled until it returns, and
\* the collector eventually runs; whether callers capture again, drop their
\* errors, or the pool drops a buffer is up to the environment.
Step(t) ==
    \/ RLock(t) \/ ReadBucket(t) \/ FastScan(t) \/ Lock(t)
    \/ CompactStep(t) \/ Finish(t) \/ Return(t)

FairSpec ==
    /\ Spec
    /\ \A t \in Threads : WF_vars(Step(t))
    /\ \A e \in Entries : WF_vars(Reclaim(e))

\* ------------------------------------------------- lazy formatting
\* The text of one resolved frame: "\n" file ":" line " " function, all
\* three determined by the frame's address.
FrameText(p) == <<"\n", p>>

RECURSIVE ResolveFrames(_)
ResolveFrames(pc) ==
    IF pc = <<>> THEN <<>> ELSE FrameText(Head(pc)) \o ResolveFrames(Tail(pc))

\* formatStackTrace: "" for no frames, else one line per frame.
formatStackTrace(pc) == IF Len(pc) = 0 THEN <<>> ELSE ResolveFrames(pc)

\* A formatStackTrace that resolves whatever it is given.
ResolutionsUnguarded(pc) == 1

\* Number of runtime.CallersFrames resolutions one formatStackTrace(pc)
\* makes: none when it returns early for no frames.
Resolutions(pc) == IF Len(pc) = 0 THEN 0 ELSE 1

\* What a string read that races with its assignment can show besides the
\* old and the new value: a header made of parts of both.
Torn == <<"torn">>

\* The values a read of e.stack.formatted outside the once gate can return:
\* the field as stored, and, while the formatting pass of another goroutine
\* is running, also the empty value from before the pass and a torn header
\* when the assignment is under way.
ReadFormatted(e) ==
    IF once[e] = "running"
    THEN {<<>>, formatted[e]} \cup (IF formatted[e] # <<>> THEN {Torn} ELSE {})
    ELSE {formatted[e]}

\* The state once two errors sharing the entry captured at SiteA, one
\* captured at SiteB, one captured with no frame left and one error without
\* a stack exist, the last error not created yet: entry 1 (SiteA) and
\* entry 2 (SiteB) in the one bucket, entry 3 (no frames) in its own, all
\* held, the buffer of the captures in the pool.
FmtInit ==
    /\ stackCache = [h \in {Hash(SiteA), Hash(SiteNone)} |->
                        IF h = Hash(SiteA) THEN [arr |-> <<1, 2>>, len |-> 2]
                                           ELSE [arr |-> <<3>>, len |-> 1]]
    /\ entryPc = [e \in Entries |->
                     IF e = 1 THEN SiteA ELSE IF e = 2 THEN SiteB ELSE SiteNone]
    /\ allocated = 3
    /\ calls = 3
    /\ reclaimed = {}
    /\ held = {1, 2, 3}
    /\ pool = {1}
    /\ bufCap = [b \in Bufs |-> IF b = 1 THEN CaptureLen(InitCap, SiteA) ELSE 0]
    /\ writer = Nil
    /\ readers = {}
    /\ frame = [t \in Threads |-> IdleFrame]
    /\ errStack = [x \in Errs \ {NumErrs} |->
                      IF x <= 2 THEN 1 ELSE IF x = 3 THEN 2 ELSE IF x = 4 THEN 3 ELSE Nil]
    /\ once = [e \in Entries |-> "new"]
    /\ formatted = [e \in Entries |-> <<>>]
    /\ fmtRuns = [e \in Entries |-> 0]
    /\ resolved = [e \in Entries |-> 0]
    /\ call = [t \in Threads |-> IdleCall]
    /\ ApiIdle
    /\ fpCall = IdleFp
    /\ bufRun = IdleRun
    /\ logRun = IdleLog

\* StackTrace(): "" at once for an error without a stack, else on to the gate.
StackTraceBegin(t, x) ==
    /\ call[t].pc = "idle"
    /\ x \in DOMAIN errStack
    /\ call' = [call EXCEPT ![t] =
           IF errStack[x] = Nil
           THEN [op |-> "StackTrace", pc |-> "idle", err |-> x, out |-> <<>>,
                 started |-> FALSE, inline |-> FALSE]
           ELSE [op |-> "StackTrace", pc |-> "once", err |-> x, out |-> <<>>,
                 started |-> FALSE, inline |-> FALSE]]
    /\ UNCHANGED <<errStack, once, formatted, fmtRuns, resolved, cacheVars, apiVars>>

\* A gate that lets a second caller in while the first is still formatting.
OnceDoUngated(t) ==
    /\ call[t].pc = "once"
    /\ LET e == errStack[call[t].err]
       IN IF once[e] = "done"
          THEN /\ call' = [call EXCEPT ![t].pc = "read"]
               /\ UNCHANGED once
          ELSE /\ once' = [once EXCEPT ![e] = "running"]
               /\ call' = [call EXCEPT ![t].pc = "run"]
    /\ UNCHANGED <<errStack, formatted, fmtRuns, resolved, cacheVars, apiVars>>

\* e.stack.once.Do(f): returns at once when done; the first caller runs f;
\* a caller arriving while f runs waits for it.
OnceDo(t) ==
    /\ call[t].pc = "once"
    /\ LET e == errStack[call[t].err]
       IN /\ once[e] # "running"
          /\ IF once[e] = "done"
             THEN /\ call' = [call EXCEPT ![t].pc = "read"]
                  /\ UNCHANGED once
             ELSE /\ once' = [once EXCEPT ![e] = "running"]
                  /\ call' = [call EXCEPT ![t].pc = "run"]
    /\ UNCHANGED <<errStack, formatted, fmtRuns, resolved, cacheVars, apiVars>>

\* e.stack.formatted = formatStackTrace(e.stack.pc), inside once.Do.
RunFormat(t) ==
    /\ call[t].pc = "run"
    /\ LET e == errStack[call[t].err]
       IN /\ formatted' = [formatted EXCEPT ![e] = formatStackTrace(entryPc[e])]
          /\ fmtRuns' = [fmtRuns EXCEPT ![e] = @ + 1]
          /\ resolved' = [resolved EXCEPT ![e] = @ + Resolutions(entryPc[e])]
    /\ call' = [call EXCEPT ![t].pc = "exit"]
    /\ UNCHANGED <<errStack, once, cacheVars, apiVars>>

\* A gate that is open again once f has run.
OnceExitReset(t) ==
    /\ call[t].pc = "exit"
    /\ once' = [once EXCEPT ![errStack[call[t].err]] = "new"]
    /\ call' = [call EXCEPT ![t].pc = "read"]
    /\ UNCHANGED <<errStack, formatted, fmtRuns, resolved, cacheVars, apiVars>>

\* once.Do returns for the goroutine that ran f: the gate is done.
OnceExit(t) ==
    /\ call[t].pc = "exit"
    /\ once' = [once EXCEPT ![errStack[call[t].err]] = "done"]
    /\ call' = [call EXCEPT ![t].pc = "read"]
    /\ UNCHANGED <<errStack, formatted, fmtRuns, resolved, cacheVars, apiVars>>

\* return e.stack.formatted
StackTraceReturn(t) ==
    /\ call[t].pc = "read"
    /\ call' = [call EXCEPT ![t] =
           [@ EXCEPT !.pc = "idle", !.out = formatted[errStack[call[t].err]],
                     !.started = TRUE]]
    /\ UNCHANGED <<errStack, once, formatted, fmtRuns, resolved, cacheVars, apiVars>>

\* A read of e.stack.formatted outside the gate, as LogValue ("LogValue")
\* and logFields ("logFields") make it; out is the text read, started
\* whether a formatting pass had begun by then.
DirectRead(t, x, op) ==
    /\ call[t].pc = "idle"
    /\ x \in DOMAIN errStack
    /\ errStack[x] # Nil
    /\ \E v \in ReadFormatted(errStack[x]) :
          call' = [call EXCEPT ![t] =
              [op |-> op, pc |-> "idle", err |-> x, out |-> v,
               started |-> (once[errStack[x]] # "new"), inline |-> FALSE]]
    /\ UNCHANGED <<errStack, once, formatted, fmtRuns, resolved, cacheVars, apiVars>>

\* if e.stack != nil && e.stack.formatted != "" { attrs = append(...) }
LogValue(t, x) == DirectRead(t, x, "LogValue")

\* if zerr.stack != nil && zerr.stack.formatted != "" { fields = append(...) }
logFields(t, x) == DirectRead(t, x, "logFields")

\* The zero runtime.Frame: no file, line 0, no function.
ZeroFrame == 0

\* What the loop of formatStack writes: a line for every frame that
\* frames.Next() returns, the first before more is looked at; for no
\* frames Next returns the zero Frame once.
InlineText(pc) == IF pc = <<>> THEN FrameText(ZeroFrame) ELSE ResolveFrames(pc)

\* e.formatStack(s), called by Format for %+v when e.stack != nil: the
\* stored text when the read of e.stack.formatted shows one, else the
\* frames resolved on the spot and written, nothing stored. out is the text
\* written after Error(), inline whether this call resolved the frames.
formatStack(t, x) ==
    /\ call[t].pc = "idle"
    /\ x \in DOMAIN errStack
    /\ errStack[x] # Nil
    /\ LET e == errStack[x]
       IN \E v \in ReadFormatted(e) :
             IF v # <<>>
             THEN call' = [call EXCEPT ![t] =
                      [op |-> "Format", pc |-> "idle", err |-> x, out |-> v,
                       started |-> (once[e] # "new"), inline |-> FALSE]]
             ELSE call' = [call EXCEPT ![t] =
                      [op |-> "Format", pc |-> "idle", err |-> x,
                       out |-> InlineText(entryPc[e]),
                       started |-> (once[e] # "new"), inline |-> TRUE]]
    /\ UNCHANGED <<errStack, once, formatted, fmtRuns, resolved, cacheVars, apiVars>>

\* Stack(err) or WithStack at the call site of the live cached entry e:
\* getOrCreateStack returns e from the fast path and the new error y refers
\* to it; the cache is as before and the buffer is back in the pool.
CaptureHit(y, e) ==
    /\ y \notin DOMAIN errStack
    /\ e \in held
    /\ errStack' = [x \in DOMAIN errStack \cup {y} |->
                        IF x = y THEN e ELSE errStack[x]]
    /\ UNCHANGED <<once, formatted, fmtRuns, resolved, call, cacheVars, apiVars>>

FmtNext ==
    \/ \E t \in Threads, x \in Errs : StackTraceBegin(t, x)
    \/ \E t \in Threads : OnceDo(t)
    \/ \E t \in Threads : RunFormat(t)
    \/ \E t \in Threads : OnceExit(t)
    \/ \E t \in Threads : StackTraceReturn(t)
    \/ \E t \in Threads, x \in Errs : LogValue(t, x)
    \/ \E t \in Threads, x \in Errs : logFields(t, x)
    \/ \E t \in Threads, x \in Errs : formatStack(t, x)
    \/ \E y \in Errs, e \in Entries : CaptureHit(y, e)

FmtSpec == FmtInit /\ [][FmtNext]_vars

\* ----------------------------------------------------- fingerprint
\* Longest frame sequence fingerprinted.
MaxSeqLen == 3

\* Return addresses the sequences are made of.
Addrs == {1, 2, 33}

\* The frame sequences of up to MaxSeqLen addresses.
FrameSeqs == UNION {[1..n -> Addrs] : n \in 0..MaxSeqLen}

\* Two captured sequences whose fingerprints are about to be computed.
HashInit ==
    /\ NoCapture
    /\ NoFormat
    /\ ApiIdle
    /\ bufRun = IdleRun
    /\ logRun = IdleLog
    /\ fpCall \in {[a |-> p, b |-> q, ha |-> Nil, hb |-> Nil, done |-> FALSE] :
                       p \in FrameSeqs, q \in FrameSeqs}

\* var hash uintptr = 17; for _, pc := range pcs { hash = hash*31 + pc },
\* run on each of the two sequences.
Fingerprint ==
    /\ ~fpCall.done
    /\ fpCall' = [fpCall EXCEPT !.ha = Hash(fpCall.a), !.hb = Hash(fpCall.b),
                                !.done = TRUE]
    /\ UNCHANGED <<cacheVars, fmtVars, objs, arrays, last, bufRun, logRun>>

HashNext == Fingerprint

HashSpec == HashInit /\ [][HashNext]_vars

\* The references of bucket h, as the map's slice header delimits them.
Refs(h) == {stackCache[h].arr[k] : k \in 1..stackCache[h].len}

\* The bucket a sequence hashes to, empty when the map has no such key.
RefsOf(seq) == IF Hash(seq) \in DOMAIN stackCache THEN Refs(Hash(seq)) ELSE {}

\* --------------------------------------------------------- error API
\* Number of Error objects in one run.
MaxObjs == 3

\* Messages, metadata keys and values the callers pass.
Msgs == {<<>>, <<"a">>, <<"b">>}
Keys == {<<"k">>, <<"l">>}
Vals == {1}

\* Errors of other packages, the runtime's error for panic(nil) among
\* them, and what their Error() returns.
StdErrs == {1}
PanicNilError == 2
StdText(s) == IF s = PanicNilError THEN <<"panic called with nil argument">>
              ELSE <<"std">>

\* Values of other types a goroutine panics with, and their %v rendering.
IntVals == {7}
Digits == <<"0", "1", "2", "3", "4", "5", "6", "7", "8", "9">>

\* The call sites the two stack-capturing functions are called from in the
\* API runs: WithStack (getOrCreateStack(2)) and convertPanicToError
\* (getOrCreateStack(3)).
StackSite == SiteA
PanicSite == SiteB

\* A nil slice of metaPair.
NilSlice == [arr |-> Nil, len |-> 0]

\* unique.Make(key): equal strings give equal handles; Value() gives the string back.
MakeHandle(key) == <<"handle", key>>
HandleValue(h) == h[2]

\* The pairs of metadata slice sl over the arrays hp.
PairsOf(hp, sl) == IF sl.arr = Nil THEN <<>> ELSE SubSeq(hp[sl.arr], 1, sl.len)

\* The metadata of object p.
Meta(p) == PairsOf(arrays, objs[p].metadata)

\* What the callers can pass as an error: nil, a foreign error, or an
\* error this package gave them.
ErrArgs == {NilError} \cup {Foreign(s) : s \in StdErrs}
                      \cup {AsError(p) : p \in 1..Len(objs)}

\* "return nil" from a function whose result type is *Error, converted to error.
NilResultTyped == AsError(Nil)

\* "return nil" from a function whose result type is error.
NilResult == NilError

\* The re-scan of a bucket run to its end: live references moved to the
\* front of the same array, in order.
RECURSIVE CompactFrom(_, _, _, _)
CompactFrom(arr, len, i, active) ==
    IF i > len THEN [arr |-> arr, len |-> active]
    ELSE IF KeepRef(Value(arr[i]))
    THEN CompactFrom([arr EXCEPT ![active + 1] = arr[i]], len, i + 1, active + 1)
    ELSE CompactFrom(arr, len, i + 1, active)

\* getOrCreateStack run from Get to return with no other goroutine in
\* between; e is the entry it returns.  The caller stores e in an error.
\* No collection intervenes in these runs, so the pool hands back the
\* buffer it holds.
CaptureStack(site, e) ==
    /\ calls < MaxCalls
    /\ calls' = calls + 1
    /\ \E b \in Bufs :
          /\ IF pool # {} THEN b \in pool
             ELSE /\ bufCap[b] = 0
                  /\ \A c \in Bufs : bufCap[c] = 0 => b <= c
          /\ LET cap0 == IF b \in pool THEN bufCap[b] ELSE InitCap
                 pcs == Capture(cap0, site)
                 h == Hash(pcs)
                 hit == {w \in RefsOf(pcs) :
                            Value(w) # Nil /\ stackMatches(entryPc[Value(w)], pcs)}
                 cur == IF h \in DOMAIN stackCache
                        THEN CompactFrom(stackCache[h].arr, stackCache[h].len, 1, 0)
                        ELSE EmptySlice
             IN /\ pool' = pool \cup {b}
                /\ bufCap' = [bufCap EXCEPT ![b] = CaptureLen(cap0, site)]
                /\ IF hit # {}
                   THEN /\ e \in hit
                        /\ UNCHANGED <<stackCache, entryPc, allocated>>
                   ELSE /\ e = allocated + 1
                        /\ e \in Entries
                        /\ allocated' = e
                        /\ entryPc' = [entryPc EXCEPT ![e] = pcs]
                        /\ stackCache' =
                              [k \in DOMAIN stackCache \cup {h} |->
                                  IF k = h THEN AppendWeak(cur, e) ELSE stackCache[k]]
    /\ held' = held \cup {e}
    /\ UNCHANGED <<reclaimed, writer, readers, frame>>

\* &Error{message: m, cause: c, stack: st, metadata: md}
NewObj(m, c, st, md) == [message |-> m, cause |-> c, stack |-> st, metadata |-> md]

\* The record of a call: operation, arguments, result.
Called(op, arg, k, v, res) ==
    [op |-> op, arg |-> arg, key |-> k, val |-> v, result |-> res,
     text |-> <<>>, handled |-> 0]

\* New(message)
New(m) ==
    /\ Len(objs) < MaxObjs
    /\ objs' = Append(objs, NewObj(m, NilError, Nil, NilSlice))
    /\ last' = Called("New", NilError, <<>>, Nil, AsError(Len(objs) + 1))
    /\ UNCHANGED <<arrays, fpCall, bufRun, logRun, cacheVars, fmtVars>>

\* Wrap(err, message): nil for nil, else a new error with err as cause
\* (the two branches of the type assertion build the same object).
Wrap(err, m) ==
    /\ IF err = NilError
       THEN /\ objs' = objs
            /\ last' = Called("Wrap", err, <<>>, Nil, NilResult)
       ELSE /\ Len(objs) < MaxObjs
            /\ objs' = Append(objs, NewObj(m, err, Nil, NilSlice))
            /\ last' = Called("Wrap", err, <<>>, Nil, AsError(Len(objs) + 1))
    /\ UNCHANGED <<arrays, fpCall, bufRun, logRun, cacheVars, fmtVars>>

\* The zero metaPair.
ZeroPair == <<MakeHandle(<<>>), Nil>>

\* A With that attaches the pair to the receiver itself and returns it.
WithOnInPlace(hp, ar, x, k, v) ==
    LET e == hp[x]
        n == e.metadata.len
        made == [i \in 1..(n + 1) |->
                    IF i <= n THEN PairsOf(ar, e.metadata)[i] ELSE <<MakeHandle(k), v>>]
    IN [objs |-> [hp EXCEPT ![x].metadata = [arr |-> Len(ar) + 1, len |-> n + 1]],
        arrays |-> Append(ar, made),
        result |-> x]

\* (e *Error).With(key, value) on the heap hp, ar: make([]metaPair, n, n+1),
\* copy, append within the capacity, all in a new array; a new object with
\* the receiver's other fields.
WithOn(hp, ar, x, k, v) ==
    LET e == hp[x]
        n == e.metadata.len
        made == [i \in 1..(n + 1) |->
                    IF i <= n THEN PairsOf(ar, e.metadata)[i] ELSE ZeroPair]
        filled == [made EXCEPT ![n + 1] = <<MakeHandle(k), v>>]
    IN [objs |-> Append(hp, NewObj(e.message, e.cause, e.stack,
                                   [arr |-> Len(ar) + 1, len |-> n + 1])),
        arrays |-> Append(ar, filled),
        result |-> Len(hp) + 1]

\* e.With(key, value) called on an error of this package.
ErrorWith(x, k, v) ==
    /\ x \in 1..Len(objs)
    /\ Len(objs) < MaxObjs
    /\ LET r == WithOn(objs, arrays, x, k, v)
       IN /\ objs' = r.objs
          /\ arrays' = r.arrays
          /\ last' = Called("Error.With", AsError(x), k, v, AsError(r.result))
    /\ UNCHANGED <<fpCall, bufRun, logRun, cacheVars, fmtVars>>

\* With(err, key, value): nil for nil; the method on a *Error; a foreign
\* error is wrapped with an empty message first.
With(err, k, v) ==
    /\ IF err = NilError
       THEN /\ UNCHANGED <<objs, arrays>>
            /\ last' = Called("With", err, k, v, NilResult)
       ELSE IF err.type = "*Error"
       THEN /\ Len(objs) < MaxObjs
            /\ LET r == WithOn(objs, arrays, err.val, k, v)
               IN /\ objs' = r.objs
                  /\ arrays' = r.arrays
                  /\ last' = Called("With", err, k, v, AsError(r.result))
       ELSE /\ Len(objs) + 1 < MaxObjs
            /\ LET wrapped == Append(objs, NewObj(<<>>, err, Nil, NilSlice))
                   r == WithOn(wrapped, arrays, Len(wrapped), k, v)
               IN /\ objs' = r.objs
                  /\ arrays' = r.arrays
                  /\ last' = Called("With", err, k, v, AsError(r.result))
    /\ UNCHANGED <<fpCall, bufRun, logRun, cacheVars, fmtVars>>

\* A WithStack that stores the entry in the receiver itself and returns it.
WithStackOnInPlace(hp, x, entry) ==
    [objs |-> [hp EXCEPT ![x].stack = entry], result |-> x]

\* (e *Error).WithStack() on the heap hp, entry being what getOrCreateStack
\* returned: a new object with the receiver's message, cause and metadata
\* slice.
WithStackOn(hp, x, entry) ==
    LET e == hp[x]
    IN [objs |-> Append(hp, NewObj(e.message, e.cause, entry, e.metadata)),
        result |-> Len(hp) + 1]

\* e.WithStack() called on an error of this package.
ErrorWithStack(x) ==
    /\ x \in 1..Len(objs)
    /\ Len(objs) < MaxObjs
    /\ \E entry \in Entries :
          /\ CaptureStack(StackSite, entry)
          /\ LET r == WithStackOn(objs, x, entry)
             IN /\ objs' = r.objs
                /\ last' = Called("Error.WithStack", AsError(x), <<>>, Nil,
                                  AsError(r.result))
    /\ UNCHANGED <<arrays, fpCall, bufRun, logRun, fmtVars>>

\* Stack(err): nil for nil; the method on a *Error; a foreign error is
\* wrapped with an empty message first.
Stack(err) ==
    /\ IF err = NilError
       THEN /\ UNCHANGED <<objs, cacheVars>>
            /\ last' = Called("Stack", err, <<>>, Nil, NilResult)
       ELSE /\ Len(objs) + (IF err.type = "*Error" THEN 0 ELSE 1) < MaxObjs
            /\ \E entry \in Entries :
                  /\ CaptureStack(StackSite, entry)
                  /\ LET hp == IF err.type = "*Error" THEN objs
                               ELSE Append(objs, NewObj(<<>>, err, Nil, NilSlice))
                         x == IF err.type = "*Error" THEN err.val ELSE Len(hp)
                         r == WithStackOn(hp, x, entry)
                     IN /\ objs' = r.objs
                        /\ last' = Called("Stack", err, <<>>, Nil,
                                          AsError(r.result))
    /\ UNCHANGED <<arrays, fpCall, bufRun, logRun, fmtVars>>

\* The separator of fmt.Sprintf("%s: %s", ...).
Sep == <<":", " ">>

\* An Error() that always writes the separator before the cause.
RECURSIVE ErrorTextAlwaysSep(_)
ErrorTextAlwaysSep(err) ==
    IF err.type = "error" THEN StdText(err.val)
    ELSE LET e == objs[err.val]
         IN IF e.cause = NilError THEN e.message
            ELSE e.message \o Sep \o ErrorTextAlwaysSep(e.cause)

\* err.Error(): a foreign error's own text; (e *Error).Error() is the
\* message without cause, the cause's text for an empty message, else
\* message ": " cause's text.
RECURSIVE ErrorText(_)
ErrorText(err) ==
    IF err.type = "error" THEN StdText(err.val)
    ELSE LET e == objs[err.val]
         IN IF e.cause = NilError THEN e.message
            ELSE IF e.message = <<>> THEN ErrorText(e.cause)
            ELSE e.message \o Sep \o ErrorText(e.cause)

\* e.Error() called on an error of this package.
ErrorString(x) ==
    /\ x \in 1..Len(objs)
    /\ last' = [Called("Error", AsError(x), <<>>, Nil, NilError)
                   EXCEPT !.text = ErrorText(AsError(x))]
    /\ UNCHANGED <<objs, arrays, fpCall, bufRun, logRun, cacheVars, fmtVars>>

\* The function ends without a panic.
NoPanic == [type |-> "none", val |-> Nil, text |-> <<>>]

\* A string and a value of another type as interface values.
StringVal(m) == [type |-> "string", val |-> Nil, text |-> m]
IntVal(n) == [type |-> "int", val |-> n, text |-> <<>>]

\* What a goroutine can panic with: nil, an error of another package, a
\* *Error (an error of this package or a nil pointer), a string, a number.
PanicArgs ==
    {NilError} \cup {Foreign(s) : s \in StdErrs}
               \cup {AsError(p) : p \in 0..Len(objs)}
               \cup {StringVal(m) : m \in Msgs}
               \cup {IntVal(n) : n \in IntVals}

\* A recover() that returns nil for panic(nil), as before Go 1.21.
RecoverNilForNil(pv) == IF pv = NoPanic THEN NilError ELSE pv

\* recover() in the deferred function: nil when not panicking, the panic
\* value otherwise, a *runtime.PanicNilError for panic(nil).
Recover(pv) ==
    IF pv = NoPanic THEN NilError
    ELSE IF pv = NilError THEN Foreign(PanicNilError)
    ELSE pv

\* The message of a converted panic.
PanicRecovered == <<"panic recovered">>

\* fmt.Sprintf("%v", v) for the values that reach the default case.
Sprintv(r) ==
    IF r.type = "int" THEN <<Digits[r.val + 1]>>
    ELSE IF r.type = "nil" THEN <<"<nil>">>
    ELSE r.text

\* A type switch that tries the error case first.
TypeSwitchErrorFirst(r) ==
    IF r.type \in {"*Error", "error"} THEN "error"
    ELSE IF r.type = "string" THEN "string"
    ELSE "default"

\* switch v := r.(type): the first case, in source order, that r's dynamic
\* type matches (a *Error is also an error).
TypeSwitch(r) ==
    IF r.type = "*Error" THEN "*Error"
    ELSE IF r.type = "error" THEN "error"
    ELSE IF r.type = "string" THEN "string"
    ELSE "default"

\* convertPanicToError(r); res is the *Error it returns.  The fields of a literal are evaluated in order, the cause
\* object before the capture and the outer object.
Convert(r, res) ==
    IF TypeSwitch(r) = "*Error"
    THEN /\ res = r.val
         /\ UNCHANGED <<objs, cacheVars>>
    ELSE /\ Len(objs) + (IF TypeSwitch(r) = "default" THEN 1 ELSE 0) < MaxObjs
         /\ \E entry \in Entries :
               /\ CaptureStack(PanicSite, entry)
               /\ LET inner == Append(objs, NewObj(Sprintv(r), NilError, Nil, NilSlice))
                  IN objs' =
                       IF TypeSwitch(r) = "error"
                       THEN Append(objs, NewObj(PanicRecovered, r, entry, NilSlice))
                       ELSE IF TypeSwitch(r) = "string"
                       THEN Append(objs, NewObj(r.text, NilError, entry, NilSlice))
                       ELSE Append(inner, NewObj(PanicRecovered, AsError(Len(inner)),
                                                 entry, NilSlice))
         /\ res = Len(objs')

\* A function that deferred Defer(handler) ends, panicking with pv or not:
\* if r := recover(); r != nil { handler(convertPanicToError(r)) }
Defer(pv) ==
    /\ IF Recover(pv) # NilError
       THEN \E res \in 0..MaxObjs :
               /\ Convert(Recover(pv), res)
               /\ last' = [Called("Defer", pv, <<>>, Nil, AsError(res))
                              EXCEPT !.handled = 1]
       ELSE /\ last' = Called("Defer", pv, <<>>, Nil, NilError)
            /\ UNCHANGED <<objs, cacheVars>>
    /\ UNCHANGED <<arrays, fpCall, bufRun, logRun, fmtVars>>

ApiNext ==
    \/ \E m \in Msgs : New(m)
    \/ \E err \in ErrArgs, m \in Msgs : Wrap(err, m)
    \/ \E x \in 1..MaxObjs, k \in Keys, v \in Vals : ErrorWith(x, k, v)
    \/ \E err \in ErrArgs, k \in Keys, v \in Vals : With(err, k, v)
    \/ \E x \in 1..MaxObjs : ErrorWithStack(x)
    \/ \E err \in ErrArgs : Stack(err)
    \/ \E x \in 1..MaxObjs : ErrorString(x)
    \/ \E pv \in PanicArgs \cup {NoPanic} : Defer(pv)

ApiSpec == Init /\ [][ApiNext]_vars

\* ------------------------------------------------- capture buffers
\* Number of captures in one run.
MaxCaptures == 2

\* make([]uintptr, n): a new array of n zero words.
Zeros(n) == [k \in 1..n |-> 0]

\* The words slice sl delimits in memory m.
Content(m, sl) == SubSeq(m[sl.arr], 1, sl.len)

\* runtime.Callers(skip+1, pcs) on array a, pcs having length l: the number
\* of frames written, and the array afterwards (words beyond them stay).
CallersN(site, l) == Min(Len(site), l)
CallersInto(a, site, l) ==
    [k \in 1..Len(a) |-> IF k <= CallersN(site, l) THEN site[k] ELSE a[k]]

\* pcsPtr := pcPool.Get(); pcs := *pcsPtr: the pooled buffer, or a new one
\* of InitCap words when the pool is empty.
BufGet(site) ==
    /\ bufRun.pc = "idle"
    /\ bufRun.captures < MaxCaptures
    /\ bufRun' =
          IF bufRun.pooled # <<>>
          THEN [bufRun EXCEPT !.pc = "reset", !.site = site,
                              !.got = bufRun.pooled[1], !.pcs = bufRun.pooled[1],
                              !.pooled = <<>>, !.attempts = 0, !.found = 0]
          ELSE [bufRun EXCEPT !.pc = "reset", !.site = site,
                              !.mem = Append(@, Zeros(InitCap)),
                              !.got = Slice(Len(bufRun.mem) + 1, InitCap, InitCap),
                              !.pcs = Slice(Len(bufRun.mem) + 1, InitCap, InitCap),
                              !.attempts = 0, !.found = 0]
    /\ UNCHANGED <<cacheVars, fmtVars, objs, arrays, last, fpCall, logRun>>

\* A capture that uses the buffer with the length it was stored with.
ResetLenKeep(sl) == sl.len

\* pcs = pcs[:cap(pcs)]
ResetLen(sl) == sl.cap

BufReset ==
    /\ bufRun.pc = "reset"
    /\ bufRun' = [bufRun EXCEPT !.pc = "first", !.pcs.len = ResetLen(bufRun.pcs)]
    /\ UNCHANGED <<cacheVars, fmtVars, objs, arrays, last, fpCall, logRun>>

\* n := runtime.Callers(skip+1, pcs); then either the growth or the trim.
BufCallers ==
    /\ bufRun.pc = "first"
    /\ LET l == bufRun.pcs.len
           n == CallersN(bufRun.site, l)
       IN bufRun' = [bufRun EXCEPT
              !.pc = IF n = l THEN "grow" ELSE "trim",
              !.mem[bufRun.pcs.arr] = CallersInto(@, bufRun.site, l),
              !.n = n, !.attempts = 1, !.firstLen = l, !.firstN = n, !.lastLen = l]
    /\ UNCHANGED <<cacheVars, fmtVars, objs, arrays, last, fpCall, logRun>>

\* pcs = make([]uintptr, len(pcs)*2); n = runtime.Callers(skip+1, pcs)
BufGrow ==
    /\ bufRun.pc = "grow"
    /\ LET l == 2 * bufRun.pcs.len
           a == Len(bufRun.mem) + 1
       IN bufRun' = [bufRun EXCEPT
              !.pc = "trim",
              !.mem = Append(@, CallersInto(Zeros(l), bufRun.site, l)),
              !.pcs = Slice(a, l, l),
              !.n = CallersN(bufRun.site, l), !.attempts = 2, !.lastLen = l]
    /\ UNCHANGED <<cacheVars, fmtVars, objs, arrays, last, fpCall, logRun>>

\* pcs = pcs[:n]
BufTrim ==
    /\ bufRun.pc = "trim"
    /\ bufRun' = [bufRun EXCEPT !.pc = "entry", !.pcs.len = bufRun.n]
    /\ UNCHANGED <<cacheVars, fmtVars, objs, arrays, last, fpCall, logRun>>

\* An entry whose pc is the slice pcs itself.
AliasPc(m, sl) == [mem |-> m, ent |-> [arr |-> sl.arr, len |-> sl.len, src |-> sl.arr]]

\* newEntry := &stackCacheEntry{pc: make([]uintptr, len(pcs))}
\* copy(newEntry.pc, pcs): the entry's pc in an array of its own; src is
\* the array it was copied from.
CopyPc(m, sl) ==
    [mem |-> Append(m, Content(m, sl)),
     ent |-> [arr |-> Len(m) + 1, len |-> sl.len, src |-> sl.arr]]

\* The entries whose pc matches the captured pcs (stackMatches).
Matching(r) ==
    {k \in 1..Len(r.ents) : stackMatches(Content(r.mem, r.ents[k]), Content(r.mem, r.pcs))}

\* The lookup with no other goroutine around: the matching entry if the
\* cache has one, else a new entry with a copy of pcs.
BufEntry ==
    /\ bufRun.pc = "entry"
    /\ IF Matching(bufRun) # {}
       THEN \E k \in Matching(bufRun) :
               bufRun' = [bufRun EXCEPT !.pc = "put", !.found = k]
       ELSE LET c == CopyPc(bufRun.mem, bufRun.pcs)
            IN bufRun' = [bufRun EXCEPT !.pc = "put", !.mem = c.mem,
                                        !.ents = Append(@, c.ent),
                                        !.found = Len(bufRun.ents) + 1]
    /\ UNCHANGED <<cacheVars, fmtVars, objs, arrays, last, fpCall, logRun>>

\* A capture that leaves in the pooled pointer the slice it acquired.
StoredAcquired(r) == r.got

\* *pcsPtr = pcs: the slice the pooled pointer refers to from now on.
Stored(r) == r.pcs

\* *pcsPtr = pcs; pcPool.Put(pcsPtr); return
BufPut ==
    /\ bufRun.pc = "put"
    /\ bufRun' = [bufRun EXCEPT !.pc = "idle", !.pooled = <<Stored(bufRun)>>,
                                !.captures = @ + 1]
    /\ UNCHANGED <<cacheVars, fmtVars, objs, arrays, last, fpCall, logRun>>

\* The pool drops its buffer at a collection.
BufDrop ==
    /\ bufRun.pc = "idle"
    /\ bufRun.pooled # <<>>
    /\ bufRun' = [bufRun EXCEPT !.pooled = <<>>]
    /\ UNCHANGED <<cacheVars, fmtVars, objs, arrays, last, fpCall, logRun>>

BufNext ==
    \/ \E site \in Sites : BufGet(site)
    \/ BufReset
    \/ BufCallers
    \/ BufGrow
    \/ BufTrim
    \/ BufEntry
    \/ BufPut
    \/ BufDrop

BufSpec == Init /\ [][BufNext]_vars

\* ------------------------------------------------------- log fields
\* Number of error values a chain is made of.
MaxNodes == 3

\* const maxDepth = 100 in the source, scaled down.
maxDepth == 3

Nodes == 1..MaxNodes

\* What an error value of a chain is: an error of another package, a *Error
\* with no metadata and no formatted stack, or a *Error with one metadata
\* pair and a stack whose text is formatted.
Shapes == {"foreign", "*Error", "*Error+fields"}

\* err.(*Error) succeeds.
IsError(shape) == shape # "foreign"

\* slog.String("zerr.error", "max recursion depth exceeded")
DepthField == [key |-> "zerr.error", val |-> "max recursion depth exceeded"]

\* The fields one visit appends: for a *Error its metadata, then
\* "stacktrace" when its stack has a formatted text; none for other errors.
FieldsOf(shape) ==
    IF shape = "*Error+fields"
    THEN <<[key |-> "k", val |-> "v"], [key |-> "stacktrace", val |-> "text"]>>
    ELSE <<>>

\* unwrap(err): what Unwrap() returns, nil for an error without the method.
unwrap(r, n) == r.next[n]

\* logFields is called on nil or on the first error of some chain; any
\* error may unwrap to any other, to itself, or to nil.
LogInit ==
    /\ NoCapture
    /\ NoFormat
    /\ ApiIdle
    /\ fpCall = IdleFp
    /\ bufRun = IdleRun
    /\ logRun \in {[pc |-> "loop", shape |-> sh, next |-> nx, start |-> st, err |-> st,
                    depth |-> 0, fields |-> <<>>, path |-> <<>>] :
                      sh \in [Nodes -> Shapes], nx \in [Nodes -> {Nil} \cup Nodes],
                      st \in {Nil} \cup Nodes}

\* A guard that lets one more error through.
DepthExceededLate(d) == d > maxDepth

\* if depth >= maxDepth
DepthExceeded(d) == d >= maxDepth

\* for err != nil is false: return fields
LogReturn ==
    /\ logRun.pc = "loop"
    /\ logRun.err = Nil
    /\ logRun' = [logRun EXCEPT !.pc = "done"]
    /\ UNCHANGED <<cacheVars, fmtVars, objs, arrays, last, fpCall, bufRun>>

\* fields = append(fields, slog.String("zerr.error", ...)); break; return
LogLimit ==
    /\ logRun.pc = "loop"
    /\ logRun.err # Nil
    /\ DepthExceeded(logRun.depth)
    /\ logRun' = [logRun EXCEPT !.pc = "done", !.fields = Append(@, DepthField)]
    /\ UNCHANGED <<cacheVars, fmtVars, objs, arrays, last, fpCall, bufRun>>

\* One iteration below the limit: depth++, the fields of a *Error, then
\* err = unwrap(err). path is the errors visited so far.
LogVisit ==
    /\ logRun.pc = "loop"
    /\ logRun.err # Nil
    /\ ~DepthExceeded(logRun.depth)
    /\ logRun' = [logRun EXCEPT
           !.depth = @ + 1,
           !.fields = @ \o FieldsOf(logRun.shape[logRun.err]),
           !.path = Append(@, logRun.err),
           !.err = unwrap(logRun, logRun.err)]
    /\ UNCHANGED <<cacheVars, fmtVars, objs, arrays, last, fpCall, bufRun>>

LogNext ==
    \/ LogReturn
    \/ LogLimit
    \/ LogVisit

\* The call runs on: nothing in logFields waits.
LogSpec == LogInit /\ [][LogNext]_vars /\ WF_vars(LogNext)

\* ------------------------------------------------------------------ claims
AtRet(t) == frame[t].pc = "ret"

\* C1: a call about to return an entry for its frame sequence returns the
\* entry every holder of an entry of that sequence holds and every other
\* such call is about to return; at most one of these calls inserted a
\* reference, and the bucket references exactly one entry of the sequence.
C1_RaceYieldsOneEntry ==
    \A t \in Threads : AtRet(t) =>
        /\ \A e \in held : entryPc[e] = frame[t].pcs => e = Result(t)
        /\ \A u \in Threads :
              (u # t /\ AtRet(u) /\ frame[u].pcs = frame[t].pcs)
              => /\ Result(u) = Result(t)
                 /\ ~(frame[t].inserted /\ frame[u].inserted)
        /\ {e \in RefsOf(frame[t].pcs) :
              e # Nil /\ entryPc[e] = frame[t].pcs} = {Result(t)}

\* Two calls on one sequence, neither found in the cache on the fast path
\* (both built a candidate), are about to return the same entry, inserted
\* by exactly one of them, while a holder holds it already.
C1_Witness ==
    \E t1, t2 \in Threads :
        /\ t1 # t2 /\ AtRet(t1) /\ AtRet(t2)
        /\ frame[t1].pcs = frame[t2].pcs
        /\ frame[t1].newEntry # Nil /\ frame[t2].newEntry # Nil
        /\ Result(t1) = Result(t2)
        /\ frame[t1].inserted /\ ~frame[t2].inserted

\* The lengths a pooled buffer can have when a capture starts.
BufLens == {InitCap, 2 * InitCap, 4 * InitCap}

\* Entry e holds a capture of call site s.
CaptureOf(e, s) == \E c \in BufLens : entryPc[e] = Capture(c, s)

\* C2: a capture of a call site returns the entry that a holder of an
\* earlier capture of the same site holds, whatever the depth of the site
\* and the buffers the two captures got.
C2_SameSiteSameEntry ==
    \A t \in Threads : AtRet(t) =>
        \A e \in held : CaptureOf(e, frame[t].site) => e = Result(t)

\* C3: a bucket never references two different live entries with the same
\* frame sequence, and outside a rewrite of the bucket under the exclusive
\* lock no two of its slots hold live references to equal sequences.
Rewriting(h) ==
    /\ writer # Nil
    /\ frame[writer].hash = h
    /\ frame[writer].pc \in {"compact", "finish"}

C3_NoDuplicateInBucket ==
    \A h \in DOMAIN stackCache :
        /\ \A e1, e2 \in Refs(h) :
              (e1 # e2 /\ Value(e1) # Nil /\ Value(e2) # Nil)
              => entryPc[e1] # entryPc[e2]
        /\ ~Rewriting(h) =>
              \A k1, k2 \in 1..stackCache[h].len :
                  ( /\ k1 # k2
                    /\ Value(stackCache[h].arr[k1]) # Nil
                    /\ Value(stackCache[h].arr[k2]) # Nil )
                  => entryPc[stackCache[h].arr[k1]] # entryPc[stackCache[h].arr[k2]]

\* A bucket with two live references, one of them to an entry created after
\* an earlier entry of the same sequence was reclaimed.
C3_Witness ==
    \E h \in DOMAIN stackCache :
        \E e1, e2 \in Refs(h) :
            /\ e1 # e2 /\ Value(e1) # Nil /\ Value(e2) # Nil
            /\ \E d \in reclaimed : entryPc[d] = entryPc[e1]

\* C4: every call returns an entry whose frame sequence equals, element for
\* element, the sequence the call captured; sequences that differ but share
\* a fingerprint get different entries, both referenced by the one bucket.
C4_ExactSequenceOnly ==
    /\ \A t \in Threads :
          /\ AtRet(t) => entryPc[Result(t)] = frame[t].pcs
          /\ (frame[t].pc # "idle" /\ frame[t].foundEntry # Nil)
                => entryPc[frame[t].foundEntry] = frame[t].pcs
    /\ \A t1, t2 \in Threads :
          ( /\ AtRet(t1) /\ AtRet(t2)
            /\ frame[t1].pcs # frame[t2].pcs
            /\ Hash(frame[t1].pcs) = Hash(frame[t2].pcs) )
          => /\ Result(t1) # Result(t2)
             /\ {Result(t1), Result(t2)} \subseteq RefsOf(frame[t1].pcs)

\* Two calls with different sequences of one fingerprint are about to
\* return different entries of the same bucket, one of them found there on
\* the fast path behind the other sequence's entry.
C4_Witness ==
    \E t1, t2 \in Threads :
        /\ AtRet(t1) /\ AtRet(t2)
        /\ frame[t1].pcs # frame[t2].pcs
        /\ Hash(frame[t1].pcs) = Hash(frame[t2].pcs)
        /\ {Result(t1), Result(t2)} \subseteq RefsOf(frame[t1].pcs)
        /\ frame[t2].newEntry = Nil
        /\ frame[t2].i > 1

Range(seq) == {seq[k] : k \in 1..Len(seq)}

\* C7: the step that rewrites a bucket after the re-scan keeps, in their
\* order, references of the list found when the lock was taken; it keeps
\* every reference whose target is live and none whose target was reclaimed
\* when the lock was taken; the other buckets and all entries are untouched
\* by every step of the lock holder.
C7_CompactionKeepsLive ==
    [][ \A t \in Threads :
          /\ (frame[t].pc = "finish" /\ frame'[t].pc = "ret" /\ frame[t].ok) =>
               LET f == frame[t]
                   kept == SubSeq(stackCache'[f.hash].arr, 1, f.active)
               IN /\ kept = SelectSeq(f.before, LAMBDA w : w \in Range(kept))
                  /\ \A w \in Range(f.before) :
                        /\ w \notin reclaimed => w \in Range(kept)
                        /\ w \in f.deadAtLock => w \notin Range(kept)
                  /\ SubSeq(stackCache'[f.hash].arr, 1, stackCache'[f.hash].len)
                        = IF f.foundEntry # Nil THEN kept
                          ELSE kept \o <<f.newEntry>>
          /\ (writer = t /\ frame'[t] # frame[t]) =>
               /\ \A k \in DOMAIN stackCache \ {frame[t].hash} :
                     stackCache'[k] = stackCache[k]
               /\ entryPc' = entryPc
      ]_vars

\* A call has just rewritten a bucket from which the compaction removed a
\* reclaimed reference and in which it kept a live one.
C7_Witness ==
    \E t \in Threads :
        /\ frame[t].pc = "ret" /\ frame[t].ok
        /\ 0 < frame[t].active
        /\ frame[t].active < Len(frame[t].before)
        /\ \E w \in Range(frame[t].before) :
              w \notin reclaimed /\ w \in RefsOf(frame[t].pcs)

\* A finished StackTrace call of goroutine t on an error with a stack.
TraceDone(t) ==
    /\ call[t].op = "StackTrace" /\ call[t].pc = "idle"
    /\ errStack[call[t].err] # Nil

\* C5: formatStackTrace runs at most once per entry, exactly once as soon
\* as a StackTrace call on the entry has returned, and every such call
\* returns the text of the entry's frames, so all of them the same text.
C5_FormatsOnce ==
    /\ \A e \in Entries : fmtRuns[e] <= 1
    /\ \A t \in Threads : TraceDone(t) =>
          /\ fmtRuns[errStack[call[t].err]] = 1
          /\ call[t].out = formatStackTrace(entryPc[errStack[call[t].err]])
    /\ \A t1, t2 \in Threads :
          ( /\ TraceDone(t1) /\ TraceDone(t2)
            /\ errStack[call[t1].err] = errStack[call[t2].err] )
          => call[t1].out = call[t2].out

\* Two goroutines have finished StackTrace on two different errors sharing
\* one entry and got the same non-empty text from a single run.
C5_Witness ==
    \E t1, t2 \in Threads :
        /\ t1 # t2 /\ TraceDone(t1) /\ TraceDone(t2)
        /\ call[t1].err # call[t2].err
        /\ errStack[call[t1].err] = errStack[call[t2].err]
        /\ call[t1].out = call[t2].out /\ call[t1].out # <<>>
        /\ fmtRuns[errStack[call[t1].err]] = 1

\* C6: whoever reads an entry's formatted text, through whatever path,
\* after the first formatting pass has started gets the final text.
C6_InProgressNeverObserved ==
    \A t \in Threads :
        ( /\ call[t].pc = "idle" /\ call[t].op # "none"
          /\ errStack[call[t].err] # Nil
          /\ call[t].started )
        => call[t].out = formatStackTrace(entryPc[errStack[call[t].err]])

\* Entry e is the target of a reference of some bucket.
InCache(e) == \E h \in DOMAIN stackCache : e \in Refs(h)

\* C8: a reference whose target has been reclaimed does not stay in the
\* cache forever: it is eventually purged.
C8_DeadRefsEventuallyPurged ==
    \A e \in Entries : (e \in reclaimed /\ InCache(e)) ~> ~InCache(e)

\* C9: no call returns or holds on to a reclaimed entry: what a call found
\* and what callers hold is never reclaimed, although the collector is free
\* to reclaim an entry whose reference is still in a bucket.
C9_ReclaimedNeverReturned ==
    /\ held \cap reclaimed = {}
    /\ \A t \in Threads :
          frame[t].pc # "idle" => frame[t].foundEntry \notin reclaimed

\* A call met, in the bucket, the reference of a reclaimed entry of the very
\* sequence it captured, and inserted a fresh entry instead.
C9_Witness ==
    \E t \in Threads :
        /\ frame[t].pc = "ret" /\ frame[t].inserted
        /\ \E k \in 1..Len(frame[t].before) :
              /\ frame[t].before[k] \in reclaimed
              /\ frame[t].before[k] \in frame[t].deadAtLock
              /\ entryPc[frame[t].before[k]] = frame[t].pcs
              /\ frame[t].newEntry # frame[t].before[k]

\* C10: a buffer is with exactly one running call or in the pool: a running
\* call has its buffer, out of the pool and shared with no other call,
\* through all its steps; the step in which a call returns (on any of the
\* three paths) is the one that puts the buffer into the pool.
C10_BufferPutBackOnce ==
    /\ [](\A t \in Threads : frame[t].pc # "idle" =>
              /\ frame[t].buf \in Bufs \ pool
              /\ \A u \in Threads :
                    (u # t /\ frame[u].pc # "idle") => frame[u].buf # frame[t].buf)
    /\ [](\A b \in Bufs :
              bufCap[b] # 0 =>
                 \/ b \in pool
                 \/ \E t \in Threads : frame[t].pc # "idle" /\ frame[t].buf = b)
    /\ [][ \A t \in Threads :
              /\ (frame[t].pc # "idle" /\ frame'[t].pc = "idle")
                    => /\ frame[t].pc = "ret"
                       /\ frame[t].buf \in pool'
                       /\ bufCap'[frame[t].buf] = frame[t].pcsCap
              /\ (frame[t].pc # "idle" /\ frame'[t].pc # "idle")
                    => frame[t].buf \notin pool'
       ]_vars

\* The three return paths side by side: a call that lost the race under the
\* write lock is about to return while the pool holds the buffers that a
\* fast-path hit or an insertion put back.
C10_Witness ==
    \E t \in Threads :
        /\ AtRet(t)
        /\ frame[t].newEntry # Nil /\ frame[t].foundEntry # Nil
        /\ pool # {}
\* C11: a call on a call site deeper than a fresh pooled buffer returns an
\* entry that holds every frame of the site, whatever the depth.
C11_DeepStackCapturedWhole ==
    \A t \in Threads :
        (AtRet(t) /\ Len(frame[t].site) > InitCap)
        => entryPc[Result(t)] = frame[t].site

\* Number of positions of seq that hold x.
Occurrences(seq, x) == Cardinality({k \in 1..Len(seq) : seq[k] = x})

\* b is a rearrangement of a: every address occurs equally often in both.
IsPermutation(a, b) ==
    /\ Len(a) = Len(b)
    /\ \A x \in Addrs : Occurrences(a, x) = Occurrences(b, x)

\* C12: two different frame sequences that are permutations of the same
\* addresses never get the same fingerprint.
C12_PermutationsDoNotCollide ==
    ( /\ fpCall.done
      /\ fpCall.a # fpCall.b
      /\ IsPermutation(fpCall.a, fpCall.b) )
    => fpCall.ha # fpCall.hb

\* The entry of the error a call works on, Nil when the error has no stack.
EntryOf(t) == IF call[t].err = Nil THEN Nil ELSE errStack[call[t].err]

\* C13: StackTrace on an error without a stack returns "" in one step that
\* neither formats nor resolves anything; StackTrace on an error whose entry
\* has zero frames returns "", and formatStackTrace never resolves such an
\* entry.
C13_EmptyWithoutResolution ==
    /\ [](\A t \in Threads :
             ( /\ call[t].op = "StackTrace" /\ call[t].pc = "idle"
               /\ (EntryOf(t) = Nil \/ entryPc[EntryOf(t)] = <<>>) )
             => call[t].out = <<>>)
    /\ [](\A e \in Entries : entryPc[e] = <<>> => resolved[e] = 0)
    /\ [][ \A t \in Threads :
              ( /\ call'[t] # call[t]
                /\ call'[t].op = "StackTrace"
                /\ errStack[call'[t].err] = Nil )
              => /\ call'[t].pc = "idle"
                 /\ call'[t].out = <<>>
                 /\ resolved' = resolved
                 /\ fmtRuns' = fmtRuns
                 /\ formatted' = formatted
       ]_vars

\* One goroutine has returned from StackTrace on the error whose entry has
\* zero frames, the formatting pass having run on that entry, and the other
\* from StackTrace on the error without a stack.
C13_Witness ==
    \E t1, t2 \in Threads :
        /\ call[t1].op = "StackTrace" /\ call[t1].pc = "idle"
        /\ EntryOf(t1) # Nil /\ entryPc[EntryOf(t1)] = <<>>
        /\ once[EntryOf(t1)] = "done" /\ fmtRuns[EntryOf(t1)] = 1
        /\ call[t1].started
        /\ call[t2].op = "StackTrace" /\ call[t2].pc = "idle"
        /\ call[t2].err # Nil /\ EntryOf(t2) = Nil

\* C14: whenever an error that carries a captured stack (with frames) has
\* been logged through LogValue or logFields, the "stacktrace" attribute was
\* emitted with the formatted text of that stack, whatever happened to the
\* error before.
C14_LoggedWithStacktrace ==
    \A t \in Threads :
        ( /\ call[t].op \in {"LogValue", "logFields"}
          /\ entryPc[EntryOf(t)] # <<>> )
        => call[t].out = formatStackTrace(entryPc[EntryOf(t)])

\* C15: Wrap, With and Stack called with nil return the nil interface, never
\* an interface holding a nil *Error; New, and Wrap of a non-nil error,
\* return an interface holding the address of an object.
C15_NilInNilOut ==
    /\ (last.op \in {"Wrap", "With", "Stack"} /\ last.arg = NilError)
          => last.result = NilError
    /\ (last.op = "New" \/ (last.op = "Wrap" /\ last.arg # NilError))
          => /\ last.result.type = "*Error"
             /\ last.result.val \in 1..Len(objs)

\* Stack(nil) has returned nil after an error was created with New and
\* wrapped with Wrap.
C15_Witness ==
    /\ last.op = "Stack" /\ last.arg = NilError /\ last.result = NilError
    /\ Len(objs) >= 2
    /\ objs[2].cause = AsError(1)

\* The messages of a chain from err inward, a foreign error counting with
\* its text.
RECURSIVE Messages(_)
Messages(err) ==
    IF err.type = "error" THEN <<StdText(err.val)>>
    ELSE IF objs[err.val].cause = NilError THEN <<objs[err.val].message>>
    ELSE <<objs[err.val].message>> \o Messages(objs[err.val].cause)

\* The strings of ms with ": " between them.
RECURSIVE JoinSep(_)
JoinSep(ms) ==
    IF Len(ms) = 0 THEN <<>>
    ELSE IF Len(ms) = 1 THEN ms[1]
    ELSE ms[1] \o Sep \o JoinSep(Tail(ms))

\* ms without its empty strings, the last string kept in any case.
RECURSIVE Kept(_)
Kept(ms) ==
    IF Len(ms) <= 1 THEN ms
    ELSE IF Head(ms) = <<>> THEN Kept(Tail(ms))
    ELSE <<Head(ms)>> \o Kept(Tail(ms))

\* C16: Error() is the message for an error without cause, the cause's
\* Error() alone for an empty message with a cause, and the messages from
\* outermost to innermost joined by ": " otherwise: for a chain of non-empty
\* messages all of them, in general those that are non-empty or innermost.
C16_ErrorJoinsMessages ==
    last.op = "Error" =>
        LET e == objs[last.arg.val]
            ms == Messages(last.arg)
        IN /\ e.cause = NilError => last.text = e.message
           /\ (e.cause # NilError /\ e.message = <<>>)
                 => last.text = JoinSep(Kept(Messages(e.cause)))
           /\ (e.cause # NilError /\ e.message # <<>>)
                 => last.text = e.message \o Sep \o JoinSep(Kept(Messages(e.cause)))
           /\ (\A k \in 1..Len(ms) : ms[k] # <<>>) => last.text = JoinSep(ms)
           /\ last.text = JoinSep(Kept(ms))

\* Error() was called on a chain of three errors whose outermost message is
\* non-empty, whose middle message is empty and whose innermost message is
\* a different non-empty one.
C16_Witness ==
    /\ last.op = "Error"
    /\ Len(Messages(last.arg)) = 3
    /\ Messages(last.arg)[1] # <<>>
    /\ Messages(last.arg)[2] = <<>>
    /\ Messages(last.arg)[3] # <<>>
    /\ Messages(last.arg)[3] # Messages(last.arg)[1]
    /\ last.text = Messages(last.arg)[1] \o Sep \o Messages(last.arg)[3]

\* C17: a With on an error of this package returns a new object whose
\* metadata is the receiver's followed by the new pair and whose message,
\* cause and stack are the receiver's; every object that existed, the
\* receiver and the errors derived from it before included, keeps its
\* fields and its metadata.
C17_WithLeavesReceiver ==
    [][ ( /\ objs' # objs
          /\ last'.op \in {"Error.With", "With"}
          /\ last'.arg.type = "*Error" )
        => LET x == last'.arg.val
               r == last'.result.val
           IN /\ r = Len(objs) + 1
              /\ Len(objs') = r
              /\ PairsOf(arrays', objs'[r].metadata)
                    = Append(Meta(x), <<MakeHandle(last'.key), last'.val>>)
              /\ HandleValue(PairsOf(arrays', objs'[r].metadata)[Len(Meta(x)) + 1][1])
                    = last'.key
              /\ objs'[r].message = objs[x].message
              /\ objs'[r].cause = objs[x].cause
              /\ objs'[r].stack = objs[x].stack
              /\ \A p \in 1..Len(objs) :
                    /\ objs'[p] = objs[p]
                    /\ PairsOf(arrays', objs'[p].metadata) = Meta(p)
      ]_vars

\* With was called twice on one receiver with different keys: the two
\* results have different metadata, each the receiver's plus its own pair.
C17_Witness ==
    /\ last.op = "Error.With"
    /\ Len(objs) = 3
    /\ last.arg.val = 1 /\ last.result.val = 3
    /\ Len(Meta(2)) = Len(Meta(1)) + 1
    /\ Len(Meta(3)) = Len(Meta(1)) + 1
    /\ objs[2].message = objs[1].message
    /\ Meta(2) # Meta(3)

\* C18: a WithStack on an error of this package returns a new object with a
\* stack entry, the receiver's message and cause and the receiver's metadata
\* slice; every object that existed, the receiver included, keeps its fields
\* (its stack among them).
C18_WithStackLeavesReceiver ==
    [][ ( /\ objs' # objs
          /\ \/ last'.op = "Error.WithStack"
             \/ (last'.op = "Stack" /\ last'.arg.type = "*Error") )
        => LET x == last'.arg.val
               r == last'.result.val
           IN /\ r = Len(objs) + 1
              /\ Len(objs') = r
              /\ objs'[r].stack \in 1..allocated'
              /\ objs'[r].stack \in held'
              /\ objs'[r].message = objs[x].message
              /\ objs'[r].cause = objs[x].cause
              /\ objs'[r].metadata = objs[x].metadata
              /\ arrays' = arrays
              /\ \A p \in 1..Len(objs) : objs'[p] = objs[p]
      ]_vars

\* WithStack was called on an error that has metadata and no stack: the
\* result has a stack and the same metadata, the receiver still no stack.
C18_Witness ==
    /\ last.op = "Error.WithStack"
    /\ objs[last.arg.val].stack = Nil
    /\ objs[last.result.val].stack # Nil
    /\ last.result.val # last.arg.val
    /\ Len(Meta(last.arg.val)) = 1
    /\ Meta(last.result.val) = Meta(last.arg.val)

\* C19: when the function that deferred Defer(handler) panicked, whatever
\* the panic value, handler was invoked once with a non-nil error; when it
\* ended without a panic, handler was not invoked.
C19_HandlerOnPanicOnly ==
    last.op = "Defer" =>
        IF last.arg = NoPanic
        THEN last.handled = 0
        ELSE last.handled = 1 /\ last.result # NilError

\* A function that deferred Defer ended with panic(nil), and the handler
\* got an error whose cause is the runtime's error for it.
C19_Witness ==
    /\ last.op = "Defer"
    /\ last.arg = NilError
    /\ last.handled = 1
    /\ objs[last.result.val].cause = Foreign(PanicNilError)

\* C20: the error Defer hands to the handler is, by the type of the
\* recovered value: the same *Error, no object built and no stack captured;
\* for another error, "panic recovered" with that error as cause; for a
\* string, that string as message and no cause; for any other value, "panic
\* recovered" with a cause that is a new *Error whose message is the value's
\* %v rendering; in the last three cases with a stack entry.
C20_ConvertByType ==
    [][ (last'.op = "Defer" /\ last'.handled = 1)
        => LET r == IF last'.arg = NilError THEN Foreign(PanicNilError) ELSE last'.arg
               res == last'.result.val
           IN IF r.type = "*Error"
              THEN /\ res = r.val
                   /\ objs' = objs
                   /\ calls' = calls
                   /\ held' = held
              ELSE /\ res = Len(objs')
                   /\ res > Len(objs)
                   /\ objs'[res].stack \in 1..allocated'
                   /\ \A p \in 1..Len(objs) : objs'[p] = objs[p]
                   /\ IF r.type = "error"
                      THEN /\ objs'[res].message = PanicRecovered
                           /\ objs'[res].cause = r
                      ELSE IF r.type = "string"
                      THEN /\ objs'[res].message = r.text
                           /\ objs'[res].cause = NilError
                      ELSE /\ objs'[res].message = PanicRecovered
                           /\ objs'[res].cause = AsError(Len(objs) + 1)
                           /\ res = Len(objs) + 2
                           /\ objs'[Len(objs) + 1].cause = NilError
                           /\ objs'[Len(objs) + 1].stack = Nil
                           /\ r = IntVal(7) => objs'[Len(objs) + 1].message = <<"7">>
      ]_vars

\* A goroutine panicked with an error of this package that has no stack and
\* the handler got that very error; before, one had panicked with the
\* number 7 and the handler got "panic recovered" caused by "7".
C20_Witness ==
    /\ last.op = "Defer" /\ last.handled = 1
    /\ last.arg.type = "*Error" /\ last.arg.val # Nil
    /\ last.result = last.arg
    /\ objs[last.arg.val].stack = Nil
    /\ Len(objs) >= 2
    /\ objs[2].message = PanicRecovered
    /\ objs[2].cause = AsError(1)
    /\ objs[1].message = <<"7">>
    /\ objs[2].stack # Nil

\* C21: no goroutine is in the fast-path loop over a bucket's references,
\* reading the array the bucket uses, while another goroutine holds the
\* exclusive lock and is rewriting that bucket.
C21_ScanUnderSharedLock ==
    \A t \in Threads :
        frame[t].pc = "scan"
        => ~( /\ Rewriting(frame[t].hash)
              /\ Len(stackCache[frame[t].hash].arr) = frame[t].entCap )

\* C22: a call that built a candidate and then found a live match under the
\* exclusive lock returns the match; its candidate is referenced by no
\* bucket, held by no error, and is no call's match.  Every entry an error
\* holds is referenced by a bucket.
C22_LoserCandidateDiscarded ==
    /\ \A t \in Threads :
          (frame[t].newEntry # Nil /\ frame[t].foundEntry # Nil)
          => /\ ~InCache(frame[t].newEntry)
             /\ frame[t].newEntry \notin held
             /\ \A u \in Threads : frame[u].foundEntry # frame[t].newEntry
             /\ AtRet(t) => Result(t) = frame[t].foundEntry
             /\ ~frame[t].inserted
    /\ \A e \in held : InCache(e)

\* A candidate was discarded for good: an entry created after a held entry
\* of the same frame sequence, reclaimed and in no bucket, the call that
\* built it having returned.
C22_Witness ==
    \E e1, e2 \in 1..allocated :
        /\ e1 < e2
        /\ entryPc[e1] = entryPc[e2]
        /\ e1 \in held
        /\ e2 \in reclaimed /\ ~InCache(e2)
        /\ \A t \in Threads : frame[t].pc = "idle"

\* Goroutine t takes a step of its call.
OwnStep(t) == frame'[t].pc # frame[t].pc \/ frame'[t].i # frame[t].i

\* C23: a call that finds a live matching entry on the fast path never
\* holds the exclusive lock (whoever holds it has built a candidate), and
\* none of its steps, from the start to the return, changes stackCache:
\* keys, bucket lists and the dead references in them stay as they are.
C23_FastHitLeavesCache ==
    /\ [](\A t \in Threads : writer = t => frame[t].newEntry # Nil)
    /\ [](\A t \in Threads :
             (AtRet(t) /\ frame[t].newEntry = Nil)
             => /\ Value(frame[t].foundEntry) # Nil
                /\ stackMatches(entryPc[frame[t].foundEntry], frame[t].pcs))
    /\ [][ \A t \in Threads :
              (OwnStep(t) /\ frame[t].newEntry = Nil /\ frame'[t].newEntry = Nil)
              => /\ stackCache' = stackCache
                 /\ writer' = writer
                 /\ writer # t
       ]_vars

\* A call has found its sequence's entry on the fast path in a bucket that
\* also holds a dead reference.
C23_Witness ==
    \E t \in Threads :
        /\ AtRet(t) /\ frame[t].newEntry = Nil /\ frame[t].foundEntry # Nil
        /\ \E w \in Refs(frame[t].hash) : w \in reclaimed

\* hash_0 = 17, hash_i = (hash_(i-1) * 31 + pc_i) mod 2^w, up to index i.
RECURSIVE LeftFold(_, _)
LeftFold(seq, i) ==
    IF i = 0 THEN 17 ELSE (LeftFold(seq, i - 1) * 31 + seq[i]) % (2 ^ HashBits)

\* C25: the fingerprint a call computed is the left fold over its captured
\* sequence; calls that captured the same sequence have the same
\* fingerprint whichever buffers they use, and every entry is referenced
\* from the bucket of its sequence's left fold.
C25_FingerprintIsLeftFold ==
    /\ \A t \in InFlight :
          frame[t].hash = LeftFold(frame[t].pcs, Len(frame[t].pcs))
    /\ \A t, u \in InFlight :
          frame[t].pcs = frame[u].pcs => frame[t].hash = frame[u].hash
    /\ \A h \in DOMAIN stackCache :
          \A w \in Refs(h) :
              w # Nil => LeftFold(entryPc[w], Len(entryPc[w])) = h

\* Two calls are running on the same captured sequence in two buffers of
\* different capacity, while a bucket holds an entry whose sequence is long
\* enough for the fold to wrap around the word.
C25_Witness ==
    /\ \E t, u \in InFlight :
          /\ t # u
          /\ frame[t].pcs = frame[u].pcs
          /\ frame[t].buf # frame[u].buf
          /\ bufCap[frame[t].buf] # bufCap[frame[u].buf]
          /\ frame[t].hash = frame[u].hash
    /\ \E h \in DOMAIN stackCache :
          \E w \in Refs(h) :
              w # Nil /\ 17 * (31 ^ Len(entryPc[w])) >= 2 ^ HashBits

\* Goroutine t is not waiting for stackCacheMu, or can take it now.
CanStep(t) ==
    /\ frame[t].pc = "rlock" => writer = Nil
    /\ frame[t].pc = "lock" => (writer = Nil /\ readers = {})

\* C27: under fair scheduling every call returns; a goroutine holds the
\* lock only between taking and releasing it, so not when it returns, nor
\* anywhere outside the two locked sections; while calls are running, one
\* of them can take a step.
C27_CallsTerminateLocksReleased ==
    /\ \A t \in Threads : (frame[t].pc # "idle") ~> (frame[t].pc = "idle")
    /\ [](\A t \in Threads :
             /\ frame[t].pc \in {"idle", "rlock", "scan", "lock", "ret"}
                   => (t \notin readers /\ writer # t)
             /\ frame[t].pc = "rread" => (t \in readers /\ writer = Nil)
             /\ frame[t].pc \in {"compact", "finish"}
                   => (writer = t /\ readers = {}))
    /\ [](InFlight # {} => \E t \in InFlight : CanStep(t))

\* One goroutine waits for the exclusive lock that the other one holds.
C27_Witness ==
    \E t, u \in Threads :
        /\ t # u
        /\ frame[t].pc = "lock"
        /\ writer = u

\* C24: once a capture has trimmed its slice, it has made one or two
\* attempts; the first used the acquired buffer at its full capacity; the
\* second was made exactly when the first filled its buffer, on a buffer of
\* twice that length; the slice has the length the last attempt reported,
\* and holds the frames one single-growth capture of the site gives.
C24_AtMostTwoAttempts ==
    bufRun.pc \in {"entry", "put"} =>
        /\ bufRun.attempts \in {1, 2}
        /\ bufRun.firstLen = bufRun.got.cap
        /\ bufRun.firstN = Min(Len(bufRun.site), bufRun.firstLen)
        /\ bufRun.attempts = 2 <=> bufRun.firstN = bufRun.firstLen
        /\ bufRun.attempts = 2 => bufRun.lastLen = 2 * bufRun.firstLen
        /\ bufRun.attempts = 1 => bufRun.lastLen = bufRun.firstLen
        /\ bufRun.n = Min(Len(bufRun.site), bufRun.lastLen)
        /\ bufRun.pcs.len = bufRun.n
        /\ bufRun.pcs.cap = bufRun.lastLen
        /\ Content(bufRun.mem, bufRun.pcs) = SubSeq(bufRun.site, 1, bufRun.n)
        /\ Content(bufRun.mem, bufRun.pcs) = Capture(bufRun.got.cap, bufRun.site)

\* A capture got a pooled buffer stored shorter than its capacity, filled
\* it at full capacity, and made a second attempt that was not filled.
C24_Witness ==
    /\ bufRun.pc = "put"
    /\ bufRun.got.len < bufRun.got.cap
    /\ bufRun.attempts = 2
    /\ bufRun.n < bufRun.lastLen
    /\ bufRun.n > bufRun.firstLen

\* C26: the frame sequence of an entry is the captured sequence when the
\* entry is created and stays what it is in every later step: captures that
\* reuse, overwrite or grow the buffer it was copied from do not change it.
C26_EntrySequenceImmutable ==
    [][ /\ Len(bufRun'.ents) >= Len(bufRun.ents)
        /\ \A k \in 1..Len(bufRun.ents) :
              /\ bufRun'.ents[k] = bufRun.ents[k]
              /\ Content(bufRun'.mem, bufRun'.ents[k]) = Content(bufRun.mem, bufRun.ents[k])
        /\ \A k \in (Len(bufRun.ents) + 1)..Len(bufRun'.ents) :
              Content(bufRun'.mem, bufRun'.ents[k]) = Content(bufRun.mem, bufRun.pcs)
      ]_vars

\* The buffer an entry was copied from has been reused by a later capture
\* and now holds other frames in the entry's positions.
C26_Witness ==
    /\ bufRun.captures >= 1
    /\ \E k \in 1..Len(bufRun.ents) :
          /\ bufRun.ents[k].len > 0
          /\ SubSeq(bufRun.mem[bufRun.ents[k].src], 1, bufRun.ents[k].len)
                # Content(bufRun.mem, bufRun.ents[k])
          /\ bufRun.pc = "put"

\* C28: the gate of an entry only moves new -> running -> done; the
\* formatted text changes only while the gate is running, to the text of
\* the entry's frames; once a formatting pass has stored it, no step of
\* StackTrace, %+v formatting, logging or a capture returning the entry
\* clears it, replaces it or formats again.
C28_FormattedOnlyForward ==
    [][ \A e \in Entries :
          /\ once[e] = "new" => once'[e] \in {"new", "running"}
          /\ once[e] = "running" => once'[e] \in {"running", "done"}
          /\ once[e] = "done" => once'[e] = "done"
          /\ fmtRuns[e] >= 1 =>
                /\ formatted'[e] = formatted[e]
                /\ fmtRuns'[e] = fmtRuns[e]
          /\ formatted'[e] # formatted[e] =>
                /\ once[e] = "running"
                /\ formatted'[e] = formatStackTrace(entryPc[e])
      ]_vars

\* An entry is formatted to a non-empty text by a single pass; one goroutine
\* has formatted an error of the entry with %+v and written the stored
\* text, and the other has got the same text from StackTrace on the error
\* that a further capture attached to the entry.
C28_Witness ==
    \E t1, t2 \in Threads :
        /\ NumErrs \in DOMAIN errStack
        /\ call[t1].op = "Format" /\ ~call[t1].inline /\ call[t1].started
        /\ call[t1].out # <<>>
        /\ EntryOf(t1) = errStack[NumErrs]
        /\ call[t2].op = "StackTrace" /\ call[t2].pc = "idle"
        /\ call[t2].err = NumErrs
        /\ call[t2].out = call[t1].out
        /\ call[t2].out = formatted[errStack[NumErrs]]
        /\ once[errStack[NumErrs]] = "done"
        /\ fmtRuns[errStack[NumErrs]] = 1

\* The %+v calls, one per goroutine, that resolved the frames of entry e
\* themselves.
InlineCalls(e) ==
    {t \in Threads : call[t].op = "Format" /\ call[t].inline /\ EntryOf(t) = e}

\* C29: over StackTrace calls and %+v formatting of the errors sharing an
\* entry, the frames of the entry are resolved at most once.
C29_ResolvedAtMostOnce ==
    \A e \in Entries : resolved[e] + Cardinality(InlineCalls(e)) <= 1

\* C30: what %+v writes after Error() for an error with a stack entry is the
\* text StackTrace() returns for it: the text of the entry's frames, ""
\* for an entry with zero frames.
C30_PlusVEqualsStackTrace ==
    \A t \in Threads :
        (call[t].op = "Format" /\ call[t].pc = "idle")
        => call[t].out = formatStackTrace(entryPc[EntryOf(t)])

\* C32: the pool holds the slice the capture finished with: its array is
\* the one the last attempt filled, never smaller than the acquired one and
\* twice its size after a growth; a capture that acquires a pooled buffer
\* gets that slice and makes its first attempt at its full capacity.
C32_PooledCapacityNeverShrinks ==
    /\ [](bufRun.pooled # <<>> =>
             /\ bufRun.pooled[1].cap >= InitCap
             /\ Len(bufRun.mem[bufRun.pooled[1].arr]) = bufRun.pooled[1].cap)
    /\ [][ /\ (bufRun.pc = "put" /\ bufRun'.pc = "idle") =>
                /\ bufRun'.pooled = <<bufRun.pcs>>
                /\ bufRun'.pooled[1].cap >= bufRun.got.cap
                /\ bufRun.attempts = 2 => bufRun'.pooled[1].cap = 2 * bufRun.got.cap
                /\ bufRun.attempts = 1 => bufRun'.pooled[1].arr = bufRun.got.arr
           /\ (bufRun.pc = "idle" /\ bufRun'.pc = "reset" /\ bufRun.pooled # <<>>) =>
                bufRun'.got = bufRun.pooled[1]
           /\ (bufRun.pc = "first" /\ bufRun'.pc # "first") =>
                bufRun'.firstLen = bufRun.got.cap
       ]_vars

\* A capture has grown its buffer, and the next capture has acquired the
\* doubled buffer from the pool and made its first attempt on all of it.
C32_Witness ==
    /\ bufRun.captures = 1
    /\ bufRun.pc \in {"grow", "trim"}
    /\ bufRun.got.cap = 2 * InitCap
    /\ bufRun.got.len < bufRun.got.cap
    /\ bufRun.firstLen = 2 * InitCap

\* The first k errors of the chain that starts at n.
RECURSIVE Chain(_, _, _)
Chain(r, n, k) ==
    IF n = Nil \/ k = 0 THEN <<>> ELSE <<n>> \o Chain(r, r.next[n], k - 1)

\* The chain has more than maxDepth errors (a cyclic one has).
Longer(r) == Len(Chain(r, r.start, maxDepth + 1)) > maxDepth

\* No error of the chain is a *Error.
NoErrorIn(r) == \A n \in Range(Chain(r, r.start, MaxNodes)) : ~IsError(r.shape[n])

\* The positions of the "zerr.error" field in the fields returned.
DepthFieldAt(r) == {k \in 1..Len(r.fields) : r.fields[k] = DepthField}

\* C31 as stated: logFields returns for every chain, having visited at most
\* maxDepth errors, with one "zerr.error" field, the last, exactly when the
\* chain is longer, and with no field at all when the chain has no *Error.
C31_NoFieldsWithoutError ==
    /\ <>(logRun.pc = "done")
    /\ [](logRun.pc = "done" =>
             /\ Len(logRun.path) <= maxDepth
             /\ logRun.path = Chain(logRun, logRun.start, maxDepth)
             /\ DepthFieldAt(logRun) =
                   IF Longer(logRun) THEN {Len(logRun.fields)} ELSE {}
             /\ NoErrorIn(logRun) => logRun.fields = <<>>)

\* C31, amended: as above, but for a chain with no *Error the fields
\* returned are none when the chain has at most maxDepth errors and the one
\* "zerr.error" field when it is longer.
C31_TerminatesWithinMaxDepth ==
    /\ <>(logRun.pc = "done")
    /\ [](logRun.depth <= maxDepth /\ logRun.depth = Len(logRun.path))
    /\ [](logRun.pc = "done" =>
             /\ Len(logRun.path) <= maxDepth
             /\ logRun.path = Chain(logRun, logRun.start, maxDepth)
             /\ DepthFieldAt(logRun) =
                   IF Longer(logRun) THEN {Len(logRun.fields)} ELSE {}
             /\ NoErrorIn(logRun) =>
                   logRun.fields = IF Longer(logRun) THEN <<DepthField>> ELSE <<>>)

\* logFields has returned from a cycle of two errors of another package:
\* maxDepth visits, and the "zerr.error" field alone.
C31_Witness ==
    /\ logRun.pc = "done"
    /\ logRun.start # Nil
    /\ logRun.next[logRun.start] \notin {Nil, logRun.start}
    /\ logRun.next[logRun.next[logRun.start]] = logRun.start
    /\ NoErrorIn(logRun)
    /\ Len(logRun.path) = maxDepth
    /\ logRun.fields = <<DepthField>>

====
